---- MODULE Spec2Model ----
(***************************************************************************)
(* Model of the import pipeline of hololive-bettel-royale-data-processing: *)
(* the per-channel game/round state machine (Processor), the identity      *)
(* resolver (observeUserName, lookupUserName), the text extractors and the *)
(* relational store they write through GORM.                               *)
(*                                                                         *)
(* Text is modelled as a sequence of lexical tokens (TLA+ strings): each   *)
(* token is a unit the program's regular expressions and string functions  *)
(* never split ("**", "~~", "__", a name, a digit, a blank, a newline, a   *)
(* literal phrase such as " hosted by ").  Timestamps are the position of  *)
(* the message in the replayed history.                                    *)
(***************************************************************************)
EXTENDS Integers, Sequences, FiniteSets, TLC

VARIABLES
    users,                \* store: set of User IDs
    observations,         \* store: UserNameObservation rows, in primary-key order
    games,                \* store: Game rows, a function from primary key to row
    rounds,               \* store: Round rows, in primary-key order
    interactions,         \* store: Interaction rows, in primary-key order
    mentions,             \* store: InteractionUserMention rows, in primary-key order
    interactionMessages,  \* store: InteractionMessage rows, in primary-key order
    items,                \* store: set of Item names
    channels,             \* Processor.channels: channel ID -> channelState
    LastKnownGameID,      \* Processor.LastKnownGameID
    err,                  \* error returned by the run so far ("" = none)
    archive,              \* the messages replayed so far, in replay order
    run,                  \* 1 = first import, 2 = second import over the same
                          \* archive, 3 = later import over new archives,
                          \* 4 = the dump command has run on the store
    pos,                  \* second import: number of archive messages replayed;
                          \* later import: number of messages of the first import
    snapshot,             \* the store as the first import left it
    backupFiles,          \* runImport: the export files found by the walk
    fileIndex,            \* runImport: 0 before the sort, then the file being replayed
    input,                \* the argument of an extractor applied on its own
    output                \* what the extractor (or the dump command) returned

vars == <<users, observations, games, rounds, interactions, mentions,
          interactionMessages, items, channels, LastKnownGameID, err,
          archive, run, pos, snapshot, backupFiles, fileIndex, input, output>>

\* the variables of the file loader and of the extractors applied on their own
aux == <<backupFiles, fileIndex, input, output>>

-----------------------------------------------------------------------------
(* Bounds of the model *)

MaxMsgs == 4        \* messages in the replayed history
MaxRerunMsgs == 3   \* messages in a history that is imported twice
MaxFileMsgs == 2    \* messages in one export file
MaxInstant == 2     \* instants the timestamps of the export files take
MaxPieces == 3      \* pieces a narrative text is made of
MaxShapeMsgs == 3   \* messages in a history with the further message shapes
MaxLaterMsgs == 2   \* messages in the archives of a later import
MaxNameMsgs == 3    \* messages in a history with command responses and nicknames

-----------------------------------------------------------------------------
(* Program constants and nil values *)

mainChannelID == "1224009923457847428"
shoppingChannelID == "1224017701744410695"
botAuthorID == "693167035068317736"

Nil == "<nil>"      \* a nil *string / *User
NilTime == 0        \* a nil *time.Time, and the zero time.Time
NoErr == ""

-----------------------------------------------------------------------------
(* Token-level strings *)

RECURSIVE Join(_)
\* the string a token sequence spells
Join(t) == IF t = <<>> THEN "" ELSE Head(t) \o Join(Tail(t))

\* strings.Contains(text, phrase): phraseToks are the tokens that contain the phrase
Contains(text, phraseToks) == \E i \in 1..Len(text) : text[i] \in phraseToks

\* strings.HasPrefix(text, phrase): phraseToks are the tokens that start with the phrase
HasPrefix(text, phraseToks) == Len(text) > 0 /\ text[1] \in phraseToks

\* strings.HasSuffix
HasSuffix(text, phraseToks) == Len(text) > 0 /\ text[Len(text)] \in phraseToks

\* index of the first occurrence of the token sequence sub in text at or after from, 0 if none
IndexFrom(text, sub, from) ==
    LET hits == {i \in from..(Len(text) - Len(sub) + 1) :
                    SubSeq(text, i, i + Len(sub) - 1) = sub}
    IN IF hits = {} THEN 0 ELSE CHOOSE i \in hits : \A j \in hits : i <= j

\* strings.SplitN(text, sep, 2)
SplitN2(text, sep) ==
    LET i == IndexFrom(text, sep, 1)
    IN IF i = 0 THEN <<text>>
       ELSE <<SubSeq(text, 1, i - 1), SubSeq(text, i + Len(sep), Len(text))>>

\* strings.Replace(text, old, new, 1)
ReplaceFirst(text, old, new) ==
    LET i == IndexFrom(text, old, 1)
    IN IF i = 0 \/ old = <<>> THEN text
       ELSE SubSeq(text, 1, i - 1) \o new \o SubSeq(text, i + Len(old), Len(text))

NonGraphicToks == {"<U+200B>"}           \* runes that are neither graphic nor space
SpaceToks == {" ", "\n"}                 \* \s
DigitToks == {"0", "1", "2", "3", "4", "5", "6", "7", "8", "9"}
EmojiToks == {"<:wol:1>", "<:K:2>", "<:ra:3>", "<:S:4>"}   \* <:name:id>

\* strings.Map(filterGraphic, text)
filterGraphic(text) == SelectSeq(text, LAMBDA t : t \notin NonGraphicToks)

\* unescapeMarkdown: the four ReplaceAll calls, on escape tokens
unescapeMarkdown(text) ==
    [i \in 1..Len(text) |->
        CASE text[i] = "\\_" -> "_"
          [] text[i] = "\\*" -> "*"
          [] text[i] = "\\." -> "."
          [] text[i] = "\\\\" -> "\\"
          [] OTHER -> text[i]]

\* length of the longest run of tokens of class cls that starts at index i
RECURSIVE RunLen(_, _, _)
RunLen(text, i, cls) ==
    IF i <= Len(text) /\ text[i] \in cls THEN 1 + RunLen(text, i + 1, cls) ELSE 0

-----------------------------------------------------------------------------
(* Records of internal/database and of the Processor *)

ZeroFloat == <<0, 0>>     \* a float32 as <<m, e>>, the decimal m / 10^e; 0.0

\* database.Game{}
ZeroGame ==
    [ID |-> 0, Era |-> "", HostUserName |-> Nil, HostUserID |-> Nil,
     StartTime |-> NilTime, EndTime |-> NilTime, CountdownStartTime |-> NilTime,
     XPMultiplier |-> ZeroFloat, RewardCoins |-> 0, Cancelled |-> FALSE,
     DiscordChannelID |-> ""]

\* database.Round{}
ZeroRound == [ID |-> 0, GameID |-> 0, RoundNumber |-> 0, PostTime |-> NilTime]

\* &channelState{}
ZeroChannelState ==
    [LastKnownIsGameRunning |-> FALSE, LastKnownGame |-> ZeroGame,
     LastKnownRound |-> ZeroRound]

Channels == {shoppingChannelID, mainChannelID}

\* the state the operations below transform: the store, the Processor and the
\* error the run has returned
Cur ==
    [users |-> users, observations |-> observations, games |-> games,
     rounds |-> rounds, interactions |-> interactions, mentions |-> mentions,
     interactionMessages |-> interactionMessages, items |-> items,
     channels |-> channels, LastKnownGameID |-> LastKnownGameID, err |-> err]

\* the store part of a state
StoreOf(s) ==
    [users |-> s.users, observations |-> s.observations, games |-> s.games,
     rounds |-> s.rounds, interactions |-> s.interactions, mentions |-> s.mentions,
     interactionMessages |-> s.interactionMessages, items |-> s.items]

\* p.channelState(c): the channel's state, created zero on first use
channelState(s, c) == s.channels[c]

Fail(s, e) == [s EXCEPT !.err = e]

SetChannel(s, c, cs) == [s EXCEPT !.channels[c] = cs]

Max(S) == CHOOSE x \in S : \A y \in S : y <= x

-----------------------------------------------------------------------------
(* Store operations (GORM on SQLite) *)

\* the primary key an INSERT without one gets in the games table
NextGameID(s) == Max(DOMAIN s.games \cup {0}) + 1

\* GORM Save of a Game: INSERT under a fresh key when the primary key is zero,
\* else UPDATE of all columns, INSERT when no row has that key
SaveGame(s, g) ==
    LET row == IF g.ID = 0 THEN [g EXCEPT !.ID = NextGameID(s)] ELSE g
    IN [s EXCEPT !.games = [k \in DOMAIN s.games \cup {row.ID} |->
                               IF k = row.ID THEN row ELSE s.games[k]]]

\* Processor.storeCurrentGame: Save writes the key it assigned back into the struct
storeCurrentGame(s, c) ==
    LET g == channelState(s, c).LastKnownGame
        s1 == SaveGame(s, g)
        id == IF g.ID = 0 THEN NextGameID(s) ELSE g.ID
    IN [s1 EXCEPT !.channels[c].LastKnownGame.ID = id]

\* the unique index game_round_idx of database.Round
RoundIndexTaken(s, r) ==
    \E i \in 1..Len(s.rounds) :
        s.rounds[i].GameID = r.GameID /\ s.rounds[i].RoundNumber = r.RoundNumber

\* Processor.storeCurrentRound: Create inserts a new row, fails on the unique
\* index, and writes the new primary key back.  The Game the Round carries is
\* inserted only if no row has its key, and a Round is stored only for a Game
\* that processGameStart has saved.
storeCurrentRound(s, c) ==
    LET r == channelState(s, c).LastKnownRound
        row == [r EXCEPT !.ID = Len(s.rounds) + 1]
    IN IF RoundIndexTaken(s, r)
       THEN Fail(s, "UNIQUE constraint failed: rounds.game_id, rounds.round_number")
       ELSE [s EXCEPT !.rounds = Append(@, row),
                      !.channels[c].LastKnownRound.ID = row.ID]

\* Processor.storeUser
storeUser(s, id) == [s EXCEPT !.users = @ \cup {id}]

\* Processor.lookupUserID: the User, created when absent
lookupUserID(s, id) ==
    IF id = "" THEN Fail(s, "empty username")
    ELSE IF id \in s.users THEN s
    ELSE storeUser(s, id)

\* Processor.lookupUserName: [v |-> the User ID of the last observation that
\* carries the name, Nil when there is none; err]
lookupUserName(s, name) ==
    LET hits == {i \in 1..Len(s.observations) : s.observations[i].Name = name}
    IN IF name = "" THEN [v |-> Nil, err |-> "empty username"]
       ELSE IF hits = {} THEN [v |-> Nil, err |-> NoErr]
       ELSE [v |-> s.observations[Max(hits)].UserID, err |-> NoErr]

\* Where("user_id = ?", id).Last(&lastChange): index of the row, 0 when none
LastObservationOf(s, id) ==
    LET hits == {i \in 1..Len(s.observations) : s.observations[i].UserID = id}
    IN IF hits = {} THEN 0 ELSE Max(hits)

\* observeUserName that appends without looking at the latest observation
observeUserNameAlways(s, m, id, name) ==
    LET Observe(s1) ==
            LET fixGames == {k \in DOMAIN s1.games :
                                /\ s1.games[k].HostUserID = Nil
                                /\ s1.games[k].HostUserName = name}
                fixMentions == {i \in 1..Len(s1.mentions) :
                                /\ s1.mentions[i].UserID = Nil
                                /\ s1.mentions[i].UserName = name}
            IN IF s1.err # NoErr THEN s1
               ELSE [s1 EXCEPT
                       !.observations =
                           Append(@, [UserID |-> id, Name |-> name, Time |-> m.Timestamp]),
                       !.games = [k \in DOMAIN @ |->
                           IF k \in fixGames THEN [@[k] EXCEPT !.HostUserID = id]
                           ELSE @[k]],
                       !.mentions = [i \in 1..Len(@) |->
                           IF i \in fixMentions THEN [@[i] EXCEPT !.UserID = id]
                           ELSE @[i]]]
    IN Observe(lookupUserID(s, id))

\* Processor.observeUserName
observeUserName(s, m, id, name) ==
    LET Observe(s1) ==
            LET last == LastObservationOf(s1, id)
                fixGames == {k \in DOMAIN s1.games :
                                /\ s1.games[k].HostUserID = Nil
                                /\ s1.games[k].HostUserName = name}
                fixMentions == {i \in 1..Len(s1.mentions) :
                                /\ s1.mentions[i].UserID = Nil
                                /\ s1.mentions[i].UserName = name}
                s2 == [s1 EXCEPT
                         !.observations =
                             Append(@, [UserID |-> id, Name |-> name, Time |-> m.Timestamp]),
                         !.games = [k \in DOMAIN @ |->
                             IF k \in fixGames THEN [@[k] EXCEPT !.HostUserID = id]
                             ELSE @[k]],
                         !.mentions = [i \in 1..Len(@) |->
                             IF i \in fixMentions THEN [@[i] EXCEPT !.UserID = id]
                             ELSE @[i]]]
            IN IF s1.err # NoErr THEN s1
               ELSE IF last # 0 /\ s1.observations[last].Name = name THEN s1
               ELSE IF fixMentions = {} /\ name = "menardi"
                    THEN Fail(s2, "log.Fatal: Something went wrong here")
               ELSE s2
    IN Observe(lookupUserID(s, id))

-----------------------------------------------------------------------------
(* Patterns and number parsing *)

RECURSIVE DigitsValue(_)
\* the number a sequence of digit tokens spells
DigitsValue(d) ==
    IF d = <<>> THEN 0
    ELSE 10 * DigitsValue(SubSeq(d, 1, Len(d) - 1))
         + (CHOOSE n \in 0..9 : ToString(n) = d[Len(d)])

\* strconv.ParseUint(digits, 10, 64): more than 19 digits are out of range
\* (the inputs of the model have at most 9)
ParseUint(d) ==
    IF Len(d) > 19 THEN [v |-> 0, err |-> "strconv.ParseUint: value out of range"]
    ELSE [v |-> DigitsValue(d), err |-> NoErr]

RECURSIVE Normalize(_, _)
Normalize(m, e) == IF e > 0 /\ m % 10 = 0 THEN Normalize(m \div 10, e - 1) ELSE <<m, e>>

\* strconv.ParseFloat(text, 32) of a [\d\.]+ text: digits with at most one point
ParseFloat(d) ==
    LET points == {i \in 1..Len(d) : d[i] = "."}
        digits == SelectSeq(d, LAMBDA t : t \in DigitToks)
        p == CHOOSE i \in points : TRUE
    IN IF Cardinality(points) > 1 \/ digits = <<>>
       THEN [v |-> ZeroFloat, err |-> "strconv.ParseFloat: invalid syntax"]
       ELSE [v |-> Normalize(DigitsValue(digits),
                             IF points = {} THEN 0 ELSE Len(d) - p),
             err |-> NoErr]

Min(S) == CHOOSE x \in S : \A y \in S : x <= y

\* the tokens of text from index i up to the end of its line, trailing blanks cut
LineBody(text, i) ==
    LET ends == {j \in i..Len(text) : text[j] = "\n"}
        stop == IF ends = {} THEN Len(text) ELSE Min(ends) - 1
        keep == {j \in i..stop : text[j] # " "}
    IN IF keep = {} THEN <<>> ELSE SubSeq(text, i, Max(keep))

\* rxEra.FindStringSubmatch(text): <<match[2]>>, or <<>> when nothing matches.
\* Era:\s+(<:.+:.+>)?\s*([^\r\n]+?)\s*(?:$|\n)
rxEra(text) ==
    LET MatchAt(i) ==
            LET a == i + 1
                b == a + RunLen(text, a, SpaceToks)
                hasEmoji == b <= Len(text) /\ text[b] \in EmojiToks
                c == IF hasEmoji THEN b + 1 ELSE b
                d == c + RunLen(text, c, SpaceToks)
                body == LineBody(text, d)
            IN IF text[i] # "Era:" \/ b = a THEN <<>>
               ELSE IF body # <<>> THEN <<body>>
               ELSE IF hasEmoji THEN <<LineBody(text, b)>>   \* the emoji is the era
               ELSE <<>>
        hits == {i \in 1..Len(text) : MatchAt(i) # <<>>}
    IN IF hits = {} THEN <<>> ELSE MatchAt(Min(hits))

\* rxPrize.FindStringSubmatch(text): <<match[1]>> or <<>>.  \*\*Prize:\*\*\s+(\d+)
rxPrize(text) ==
    LET DigitsAt(i) ==
            LET a == i + 1
                b == a + RunLen(text, a, SpaceToks)
            IN IF text[i] # "**Prize:**" \/ b = a THEN <<>>
               ELSE SubSeq(text, b, b + RunLen(text, b, DigitToks) - 1)
        hits == {i \in 1..Len(text) : DigitsAt(i) # <<>>}
    IN IF hits = {} THEN <<>> ELSE <<DigitsAt(Min(hits))>>

\* rxXPMultiplier.FindStringSubmatch(text): <<match[1]>> or <<>>.
\* ([\d\.]+)x\s+XP\s+multiplier
rxXPMultiplier(text) ==
    LET Num == DigitToks \cup {"."}
        hits == {j \in 2..Len(text) : text[j] = "x XP multiplier" /\ text[j - 1] \in Num}
        j == Min(hits)
        start == Min({i \in 1..(j - 1) : \A k \in i..(j - 1) : text[k] \in Num})
    IN IF hits = {} THEN <<>> ELSE <<SubSeq(text, start, j - 1)>>

RECURSIVE SplitLines(_)
\* the lines of a text
SplitLines(text) ==
    LET i == IndexFrom(text, <<"\n">>, 1)
    IN IF i = 0 THEN <<text>>
       ELSE <<SubSeq(text, 1, i - 1)>> \o SplitLines(SubSeq(text, i + 1, Len(text)))

\* rxInteraction.FindAllStringSubmatch(text, -1): the match[2] of every line
\* that matches ^(<:.+:\d+>)\s+\|\s+([^\n]+?)\s*$
rxInteraction(text) ==
    LET lines == SplitLines(text)
        Body(l) == IF Len(l) >= 3 /\ l[1] \in EmojiToks /\ l[2] = " | "
                   THEN LineBody(l, 3) ELSE <<>>
        matching == SelectSeq(lines, LAMBDA l : Body(l) # <<>>)
    IN [k \in 1..Len(matching) |-> Body(matching[k])]

\* tokens of [a-z0-9_\.\\]*[a-z0-9_\.]
NameToks == {"zed", "alex", "menardi", "tokki", "egg", "_", ".", "\\_", "\\."}
\* tokens that contain '*'
StarToks == {"**", "\\*", "**Prize:**"}
\* tokens that contain '_'
UnderscoreToks == {"__", "_", "\\_", "__Round "}

\* rxUserFormatted at index i: the match [full, name, suffix, killed], or <<>>.
\* (?:~~\*\*NAME\*\*~~|\*\*NAME\*\*), NAME = ([a-z0-9_\.\\]*[a-z0-9_\.])(\s+[^\*]+)?
rxUserFormattedAt(text, i) ==
    LET killed == text[i] = "~~"
        open == IF killed THEN i + 1 ELSE i
        n == open + 1
        nameLen == RunLen(text, n, NameToks)
        sfx == n + nameLen
        NonStar == {text[k] : k \in 1..Len(text)} \ StarToks
        tailLen == RunLen(text, sfx, NonStar)
        sfxLen == IF tailLen >= 2 /\ text[sfx] \in SpaceToks THEN tailLen ELSE 0
        close == sfx + sfxLen
        last == IF killed THEN close + 1 ELSE close
    IN IF /\ open <= Len(text) /\ text[open] = "**"
          /\ nameLen >= 1
          /\ close <= Len(text) /\ text[close] = "**"
          /\ (killed => last <= Len(text) /\ text[last] = "~~")
       THEN <<[full |-> SubSeq(text, i, last),
               name |-> SubSeq(text, n, sfx - 1),
               suffix |-> SubSeq(text, sfx, close - 1),
               killed |-> killed]>>
       ELSE <<>>

RECURSIVE rxUserFormattedFrom(_, _)
rxUserFormattedFrom(text, i) ==
    IF i > Len(text) THEN <<>>
    ELSE LET m == rxUserFormattedAt(text, i)
         IN IF m = <<>> THEN rxUserFormattedFrom(text, i + 1)
            ELSE m \o rxUserFormattedFrom(text, i + Len(m[1].full))

\* rxUserFormatted.FindAllStringSubmatch(text, -1)
rxUserFormatted(text) == rxUserFormattedFrom(text, 1)

\* rxItemFormatted at index i: <<match[1]>> or <<>>.  __([^_]+)__
rxItemFormattedAt(text, i) ==
    LET NonUnderscore == {text[k] : k \in 1..Len(text)} \ UnderscoreToks
        n == RunLen(text, i + 1, NonUnderscore)
        close == i + 1 + n
    IN IF text[i] = "__" /\ n >= 1 /\ close <= Len(text) /\ text[close] = "__"
       THEN <<SubSeq(text, i + 1, close - 1)>>
       ELSE <<>>

RECURSIVE rxItemFormattedFrom(_, _)
rxItemFormattedFrom(text, i) ==
    IF i > Len(text) THEN <<>>
    ELSE LET m == rxItemFormattedAt(text, i)
         IN IF m = <<>> THEN rxItemFormattedFrom(text, i + 1)
            ELSE m \o rxItemFormattedFrom(text, i + Len(m[1]) + 2)

\* rxItemFormatted.FindAllStringSubmatch(text, -1): the match[1] of every match
rxItemFormatted(text) == rxItemFormattedFrom(text, 1)

-----------------------------------------------------------------------------
(* Text extractors *)

\* index of x in the sequence q, -1 when absent (slices.Index)
SliceIndex(q, x) ==
    LET hits == {i \in 1..Len(q) : q[i] = x}
    IN IF hits = {} THEN -1 ELSE Min(hits) - 1

RECURSIVE extractUsersLoopAppending(_, _, _)
\* the loop of extractUsers without the search for an equal mention
extractUsersLoopAppending(matches, msg, userInteractions) ==
    IF matches = <<>> THEN [msg |-> msg, userInteractions |-> userInteractions]
    ELSE LET match == Head(matches)
             userInteraction ==
                 [UserName |-> Join(unescapeMarkdown(match.name)), UserID |-> Nil,
                  Killed |-> match.killed, Suffix |-> Join(match.suffix)]
         IN extractUsersLoopAppending(Tail(matches),
                ReplaceFirst(msg, match.full,
                    <<"{{users[" \o ToString(Len(userInteractions)) \o "]}}">>),
                Append(userInteractions, userInteraction))

RECURSIVE extractUsersLoop(_, _, _)
\* the loop over the matches of extractUsers: [msg, userInteractions]
extractUsersLoop(matches, msg, userInteractions) ==
    IF matches = <<>> THEN [msg |-> msg, userInteractions |-> userInteractions]
    ELSE LET match == Head(matches)
             userInteraction ==
                 [UserName |-> Join(unescapeMarkdown(match.name)), UserID |-> Nil,
                  Killed |-> match.killed, Suffix |-> Join(match.suffix)]
             Step(found) ==
                 extractUsersLoop(Tail(matches),
                     ReplaceFirst(msg, match.full,
                         <<"{{users["
                           \o ToString(IF found < 0 THEN Len(userInteractions) ELSE found)
                           \o "]}}">>),
                     IF found < 0 THEN Append(userInteractions, userInteraction)
                     ELSE userInteractions)
         IN Step(SliceIndex(userInteractions, userInteraction))

\* Processor.extractUsers: [msg, userInteractions, err]; reads the store only
extractUsers(s, msg) ==
    LET Fill(r) ==
            LET looked == [i \in 1..Len(r.userInteractions) |->
                              lookupUserName(s, r.userInteractions[i].UserName)]
                failed == {i \in 1..Len(r.userInteractions) : looked[i].err # NoErr}
            IN IF failed # {}
               THEN [msg |-> r.msg, userInteractions |-> <<>>,
                     err |-> looked[Min(failed)].err]
               ELSE [msg |-> r.msg,
                     userInteractions |-> [i \in 1..Len(r.userInteractions) |->
                         [r.userInteractions[i] EXCEPT !.UserID = looked[i].v]],
                     err |-> NoErr]
    IN Fill(extractUsersLoop(rxUserFormatted(msg), msg, <<>>))

\* Processor.storeItem
storeItem(s, name) == [s EXCEPT !.items = @ \cup {name}]

\* Processor.lookupItem: the Item of that name, created when absent
lookupItem(s, name) == IF name \in s.items THEN s ELSE storeItem(s, name)

\* extractItems that takes the first mention and does not count the mentions
extractItemsFirstOnly(s, msg) ==
    LET Extract(matches) ==
            LET name == Join(unescapeMarkdown(matches[1]))
            IN IF Len(matches) = 0
               THEN [s |-> s, msg |-> msg, items |-> <<>>, err |-> NoErr]
               ELSE [s |-> lookupItem(s, name),
                     msg |-> ReplaceFirst(msg, <<"__">> \o matches[1] \o <<"__">>,
                                          <<"{{item}}">>),
                     items |-> <<name>>, err |-> NoErr]
    IN Extract(rxItemFormatted(msg))

\* Processor.extractItems: [s, msg, items, err]
extractItems(s, msg) ==
    LET Extract(matches) ==
            LET name == Join(unescapeMarkdown(matches[1]))
            IN IF Len(matches) > 1
               THEN [s |-> s, msg |-> <<>>, items |-> <<>>,
                     err |-> "more than 1 item mention found in message which is not yet supported: "
                             \o Join(msg)]
               ELSE IF Len(matches) = 0
               THEN [s |-> s, msg |-> msg, items |-> <<>>, err |-> NoErr]
               ELSE [s |-> lookupItem(s, name),
                     msg |-> ReplaceFirst(msg, <<"__">> \o matches[1] \o <<"__">>,
                                          <<"{{item}}">>),
                     items |-> <<name>>, err |-> NoErr]
    IN Extract(rxItemFormatted(msg))

\* Processor.storeInteractionMessage: Save of a row without primary key, an
\* INSERT; Text has a unique index
storeInteractionMessage(s, text, event) ==
    IF \E i \in 1..Len(s.interactionMessages) : s.interactionMessages[i].Text = text
    THEN Fail(s, "UNIQUE constraint failed: interaction_messages.text")
    ELSE [s EXCEPT !.interactionMessages = Append(@, [Text |-> text, Event |-> event])]

\* Processor.lookupInteractionMessage: [s, id, err], the row with that text and
\* event, created when absent
lookupInteractionMessage(s, text, event) ==
    LET hits == {i \in 1..Len(s.interactionMessages) :
                    /\ s.interactionMessages[i].Text = text
                    /\ s.interactionMessages[i].Event = event}
        Stored(s1) == [s |-> [s1 EXCEPT !.err = s.err],
                       id |-> Len(s1.interactionMessages), err |-> s1.err]
    IN IF hits # {} THEN [s |-> s, id |-> Min(hits), err |-> NoErr]
       ELSE Stored(storeInteractionMessage(s, text, event))

\* Processor.storeInteraction: Create of the Interaction; its UserMentions have
\* no primary key yet and are inserted with it
storeInteraction(s, roundID, messageID, userInteractions, itemNames) ==
    [s EXCEPT
       !.interactions = Append(@,
           [RoundID |-> roundID, MessageID |-> messageID,
            UserMentions |-> [i \in 1..Len(userInteractions) |-> Len(s.mentions) + i],
            Items |-> itemNames]),
       !.mentions = @ \o userInteractions]

-----------------------------------------------------------------------------
(* Game/round state machine *)

\* Processor.createNewGame; hostName is Nil or the host's name
createNewGame(s, c, m, era, hostName) ==
    LET id == s.LastKnownGameID + 1
        game == [ZeroGame EXCEPT !.ID = id, !.Era = era, !.HostUserName = hostName,
                                 !.DiscordChannelID = c]
        s1 == [s EXCEPT !.LastKnownGameID = id, !.channels[c].LastKnownGame = game]
        Finish(host) ==
            IF host.err # NoErr THEN Fail(s1, host.err)
            ELSE [s1 EXCEPT
                    !.channels[c].LastKnownGame.HostUserID = host.v,
                    !.channels[c].LastKnownRound = [ZeroRound EXCEPT !.GameID = id],
                    !.channels[c].LastKnownIsGameRunning = FALSE]
    IN Finish(IF hostName = Nil THEN [v |-> Nil, err |-> NoErr]
              ELSE lookupUserName(s1, hostName))

\* Processor.createNewRound
createNewRound(s, c, roundNumber) ==
    [s EXCEPT !.channels[c].LastKnownRound =
        [ZeroRound EXCEPT !.GameID = channelState(s, c).LastKnownGame.ID,
                          !.RoundNumber = roundNumber]]

\* Processor.processGameCountdownStart
processGameCountdownStart(s, c, m, e) ==
    LET cleanDesc == filterGraphic(e.Description)
        cleanTitle == filterGraphic(e.Title)
        Era(match) == IF match # <<>> THEN Join(match[1]) ELSE ""
        Host(fields) == IF Len(fields) = 2 THEN Join(unescapeMarkdown(fields[2])) ELSE Nil
        Created(s1) ==
            IF s1.err # NoErr THEN s1
            ELSE [s1 EXCEPT !.channels[c].LastKnownGame.CountdownStartTime = m.Timestamp]
    IN Created(createNewGame(s, c, m, Era(rxEra(cleanDesc)),
                             Host(SplitN2(cleanTitle, <<" hosted by ">>))))

\* processGameWinner that marks the Game cancelled as processGameCancelled does
processGameWinnerCancelling(s, c, m) ==
    LET cs == channelState(s, c)
        Stored(s2) == [s2 EXCEPT !.channels[c].LastKnownIsGameRunning = FALSE]
    IN IF ~cs.LastKnownIsGameRunning
       THEN IF cs.LastKnownGame.ID = 0 THEN s
            ELSE Fail(s, "found game winner data when no game considered running")
       ELSE Stored(storeCurrentGame(
                [s EXCEPT !.channels[c].LastKnownGame.EndTime = m.Timestamp,
                          !.channels[c].LastKnownGame.Cancelled = TRUE], c))

\* Processor.processGameWinner
processGameWinner(s, c, m) ==
    LET cs == channelState(s, c)
        Stored(s2) == [s2 EXCEPT !.channels[c].LastKnownIsGameRunning = FALSE]
    IN IF ~cs.LastKnownIsGameRunning
       THEN IF cs.LastKnownGame.ID = 0 THEN s
            ELSE Fail(s, "found game winner data when no game considered running")
       ELSE Stored(storeCurrentGame(
                [s EXCEPT !.channels[c].LastKnownGame.EndTime = m.Timestamp], c))

\* Processor.processGameCancelled
processGameCancelled(s, c, m) ==
    LET ch == channelState(s, c)
        Stored(s2) == [s2 EXCEPT !.channels[c].LastKnownIsGameRunning = FALSE]
    IN IF ~ch.LastKnownIsGameRunning
       THEN IF ch.LastKnownGame.ID = 0 THEN s
            ELSE Fail(s, "found game cancellation when no game considered running")
       ELSE Stored(storeCurrentGame(
                [s EXCEPT !.channels[c].LastKnownGame.EndTime = m.Timestamp,
                          !.channels[c].LastKnownGame.Cancelled = TRUE], c))

\* processGameStart that does not call storeCurrentGame
processGameStartUnsaved(s, c, m, e) ==
    LET cleanDesc == filterGraphic(e.Description)
        Reward(s1, match) ==
            LET Parsed(prize) ==
                    IF prize.err # NoErr THEN Fail(s1, prize.err)
                    ELSE [s1 EXCEPT !.channels[c].LastKnownGame.RewardCoins = prize.v]
            IN IF match = <<>> THEN s1 ELSE Parsed(ParseUint(match[1]))
        Multiplier(s2, match) ==
            LET Parsed(multiplier) ==
                    IF multiplier.err # NoErr THEN Fail(s2, multiplier.err)
                    ELSE [s2 EXCEPT !.channels[c].LastKnownGame.XPMultiplier = multiplier.v]
            IN IF match = <<>> THEN s2 ELSE Parsed(ParseFloat(match[1]))
        AfterReward(s2) ==
            IF s2.err # NoErr THEN s2
            ELSE Multiplier(s2, rxXPMultiplier(cleanDesc))
    IN AfterReward(Reward([s EXCEPT !.channels[c].LastKnownIsGameRunning = TRUE,
                                    !.channels[c].LastKnownGame.StartTime = m.Timestamp],
                          rxPrize(cleanDesc)))

\* Processor.processGameStart
processGameStart(s, c, m, e) ==
    LET cleanDesc == filterGraphic(e.Description)
        Reward(s1, match) ==
            LET Parsed(prize) ==
                    IF prize.err # NoErr THEN Fail(s1, prize.err)
                    ELSE [s1 EXCEPT !.channels[c].LastKnownGame.RewardCoins = prize.v]
            IN IF match = <<>> THEN s1 ELSE Parsed(ParseUint(match[1]))
        Multiplier(s2, match) ==
            LET Parsed(multiplier) ==
                    IF multiplier.err # NoErr THEN Fail(s2, multiplier.err)
                    ELSE [s2 EXCEPT !.channels[c].LastKnownGame.XPMultiplier = multiplier.v]
            IN IF match = <<>> THEN s2 ELSE Parsed(ParseFloat(match[1]))
        Store(s3) == IF s3.err # NoErr THEN s3 ELSE storeCurrentGame(s3, c)
        AfterReward(s2) ==
            IF s2.err # NoErr THEN s2
            ELSE Store(Multiplier(s2, rxXPMultiplier(cleanDesc)))
    IN AfterReward(Reward([s EXCEPT !.channels[c].LastKnownIsGameRunning = TRUE,
                                    !.channels[c].LastKnownGame.StartTime = m.Timestamp],
                          rxPrize(cleanDesc)))

\* lookupInteractionMessage and storeInteraction for the text the extractors
\* left; u and it are the results of extractUsers and extractItems
persistInteraction(c, u, it, text, event) ==
    LET AfterMessage(im) ==
            IF im.err # NoErr THEN Fail(im.s, im.err)
            ELSE storeInteraction(im.s, channelState(im.s, c).LastKnownRound.ID, im.id,
                                  u.userInteractions, it.items)
    IN IF it.err # NoErr THEN Fail(it.s, it.err)
       ELSE AfterMessage(lookupInteractionMessage(it.s, text, event))

RECURSIVE processRoundLines(_, _, _)
\* the loop of processRound over the event lines of the description
processRoundLines(s, c, lines) ==
    IF lines = <<>> \/ s.err # NoErr THEN s
    ELSE LET AfterItems(u, it) == persistInteraction(c, u, it, Join(it.msg), "")
             AfterUsers(u) == IF u.err # NoErr THEN Fail(s, u.err)
                              ELSE AfterItems(u, extractItems(s, u.msg))
         IN processRoundLines(AfterUsers(extractUsers(s, Head(lines))), c, Tail(lines))

\* Processor.processEventRound
processEventRound(s, c, m, e) ==
    LET cs == channelState(s, c)
        cleanDesc == filterGraphic(e.Description)
        cleanTitle == filterGraphic(e.Title)
        eventTitle == SplitN2(cleanTitle, <<" - ">>)[2]
        eventDescription == SplitN2(cleanDesc, <<"\n", "\n">>)[1]
        Next1(s3) ==
            IF s3.err # NoErr THEN s3
            ELSE createNewRound(s3, c, channelState(s3, c).LastKnownRound.RoundNumber + 1)
        AfterUsers(s1, u) ==
            IF u.err # NoErr THEN Fail(s1, u.err)
            ELSE persistInteraction(c, u, extractItems(s1, u.msg),
                                    Join(eventDescription), Join(eventTitle))
        Stored(s1) ==
            IF s1.err # NoErr THEN s1
            ELSE Next1(AfterUsers(s1, extractUsers(s1, cleanDesc)))
    IN IF ~cs.LastKnownIsGameRunning
       THEN IF cs.LastKnownGame.ID = 0 THEN s
            ELSE Fail(s, "found event round data when no game considered running")
       ELSE Stored(storeCurrentRound(
                [s EXCEPT !.channels[c].LastKnownRound.PostTime = m.Timestamp], c))

\* processRound that ignores every round narrative seen while no Game is running
processRoundLenient(s, c, m, e) ==
    LET cs == channelState(s, c)
        Next1(s2) ==
            IF s2.err # NoErr THEN s2
            ELSE createNewRound(s2, c, channelState(s2, c).LastKnownRound.RoundNumber + 1)
        Stored(s1) ==
            IF s1.err # NoErr THEN s1
            ELSE Next1(processRoundLines(s1, c, rxInteraction(e.Description)))
    IN IF ~cs.LastKnownIsGameRunning THEN s
       ELSE IF Contains(e.Title, {" - "}) THEN processEventRound(s, c, m, e)
       ELSE Stored(storeCurrentRound(
                [s EXCEPT !.channels[c].LastKnownRound.PostTime = m.Timestamp], c))

\* Processor.processRound
processRound(s, c, m, e) ==
    LET cs == channelState(s, c)
        Next1(s2) ==
            IF s2.err # NoErr THEN s2
            ELSE createNewRound(s2, c, channelState(s2, c).LastKnownRound.RoundNumber + 1)
        Stored(s1) ==
            IF s1.err # NoErr THEN s1
            ELSE Next1(processRoundLines(s1, c, rxInteraction(e.Description)))
    IN IF ~cs.LastKnownIsGameRunning
       THEN IF cs.LastKnownGame.ID = 0 THEN s
            ELSE Fail(s, "found round data when no game considered running")
       ELSE IF Contains(e.Title, {" - "}) THEN processEventRound(s, c, m, e)
       ELSE Stored(storeCurrentRound(
                [s EXCEPT !.channels[c].LastKnownRound.PostTime = m.Timestamp], c))

-----------------------------------------------------------------------------
(* processExport: one message of an export *)

\* Processor.wrapError
wrapError(msg, e) == "failure at message ID " \o ToString(msg.ID) \o ": " \o e

RECURSIVE observeAll(_, _, _)
\* observeUserName for each user of a list, up to the first error
observeAll(s, msg, list) ==
    IF list = <<>> \/ s.err # NoErr THEN s
    ELSE observeAll(observeUserName(s, msg, Head(list).ID, Head(list).Name), msg, Tail(list))

RECURSIVE Flatten(_)
Flatten(q) == IF q = <<>> THEN <<>> ELSE Head(q) \o Flatten(Tail(q))

\* the embed shapes the switch of processExport names and skips (lines 530-579)
IgnoredTitles ==
    {<<"Rumble Royale Info">>, <<"Rumble Royale Overview">>, <<"Banners">>,
     <<"Vote for Rumble Royale">>, <<"Backpack Rewards!">>}

ApostropheToks == {"'s balance", "'s backpacks", "'s Classic Era Items and Skins",
                   "'s Profile"}

\* strings.SplitN(embed.Author.Name, "'", 2)[0]
BeforeApostrophe(text) ==
    LET hits == {i \in 1..Len(text) : text[i] \in ApostropheToks}
    IN IF hits = {} THEN text ELSE SubSeq(text, 1, Min(hits) - 1)

RECURSIVE embedLoopStrict(_, _, _, _)
\* the embedLoop with an error for the embeds no case of the switch names
embedLoopStrict(s, c, msg, embedIndex) ==
    IF embedIndex >= Len(msg.Embeds) THEN s
    ELSE
    LET embed == msg.Embeds[embedIndex + 1]
        Checked(r) == IF r.err # NoErr THEN Fail(r, wrapError(msg, r.err))
                      ELSE embedLoopStrict(r, c, msg, embedIndex + 1)
        Broken(r) == [r EXCEPT !.err = NoErr]
    IN CASE Contains(embed.Title, {" hosted by ", "hosted by "})
              \/ embed.Footer = <<"Automatic Session">> ->
                Checked(processGameCountdownStart(s, c, msg, embed))
         [] HasPrefix(embed.Description, {"Starting in "}) ->
                Checked(s)
         [] HasPrefix(embed.Title, {"Started a new "}) ->
                Checked(processGameStart(s, c, msg, embed))
         [] embed.Title = <<"Rumble Royale session cancelled">> ->
                Broken(processGameCancelled(s, c, msg))
         [] embedIndex = 0 /\ Contains(embed.Title, {"WINNER!"}) ->
                Broken(processGameWinner(s, c, msg))
         [] \/ Contains(embed.AuthorName, {"'s balance"})
            \/ Contains(embed.AuthorName, {"'s backpacks"})
            \/ (Contains(embed.AuthorName, {"'s Classic Era Items and Skins"})
                /\ msg.Interaction # <<>>) ->
                IF msg.Interaction = <<>>
                THEN Fail(s, "panic: nil pointer dereference")
                ELSE observeUserName(s, msg, msg.Interaction[1].ID,
                         Join(unescapeMarkdown(BeforeApostrophe(embed.AuthorName))))
         [] HasPrefix(embed.Title, {"__Round "}) ->
                Checked(processRound(s, c, msg, embed))
         [] embed.Title \in IgnoredTitles -> Checked(s)
         [] OTHER -> Checked(Fail(s, "unhandled message"))

RECURSIVE embedLoop(_, _, _, _)
\* the embedLoop of processExport from embed number embedIndex (0-based) on.
\* A break leaves the loop before the error of the handler is looked at.
embedLoop(s, c, msg, embedIndex) ==
    IF embedIndex >= Len(msg.Embeds) THEN s
    ELSE
    LET embed == msg.Embeds[embedIndex + 1]
        Checked(r) == IF r.err # NoErr THEN Fail(r, wrapError(msg, r.err))
                      ELSE embedLoop(r, c, msg, embedIndex + 1)
        Broken(r) == [r EXCEPT !.err = NoErr]
    IN CASE Contains(embed.Title, {" hosted by ", "hosted by "})
              \/ embed.Footer = <<"Automatic Session">> ->
                Checked(processGameCountdownStart(s, c, msg, embed))
         [] HasPrefix(embed.Description, {"Starting in "}) ->
                Checked(s)
         [] HasPrefix(embed.Title, {"Started a new "}) ->
                Checked(processGameStart(s, c, msg, embed))
         [] embed.Title = <<"Rumble Royale session cancelled">> ->
                Broken(processGameCancelled(s, c, msg))
         [] embedIndex = 0 /\ Contains(embed.Title, {"WINNER!"}) ->
                Broken(processGameWinner(s, c, msg))
         [] \/ Contains(embed.AuthorName, {"'s balance"})
            \/ Contains(embed.AuthorName, {"'s backpacks"})
            \/ (Contains(embed.AuthorName, {"'s Classic Era Items and Skins"})
                /\ msg.Interaction # <<>>) ->
                IF msg.Interaction = <<>>
                THEN Fail(s, "panic: nil pointer dereference")
                ELSE observeUserName(s, msg, msg.Interaction[1].ID,
                         Join(unescapeMarkdown(BeforeApostrophe(embed.AuthorName))))
         [] HasPrefix(embed.Title, {"__Round "}) ->
                Checked(processRound(s, c, msg, embed))
         [] embed.Title \in IgnoredTitles -> Checked(s)
         [] OTHER -> Checked(s)

\* the body of the loop with the embeds classified before the users are observed
processMessageClassifyingFirst(s, msg) ==
    LET Observed(s3) ==
            IF s3.err # NoErr \/ msg.Author.ID = botAuthorID THEN s3
            ELSE observeUserName(s3, msg, msg.Author.ID, msg.Author.Name)
        Classified(s1) ==
            IF s1.err # NoErr THEN s1
            ELSE Observed(observeAll(s1, msg,
                     msg.Interaction \o msg.Mentions \o Flatten(msg.Reactions)))
    IN Classified(IF msg.Author.ID = botAuthorID
                  THEN embedLoop(s, msg.Channel, msg, 0) ELSE s)

\* the body of the loop of processExport for one message of the channel's export
processMessage(s, msg) ==
    LET Observed(s3) ==
            IF s3.err # NoErr THEN s3
            ELSE IF msg.Author.ID # botAuthorID
            THEN observeUserName(s3, msg, msg.Author.ID, msg.Author.Name)
            ELSE embedLoop(s3, msg.Channel, msg, 0)
    IN Observed(observeAll(s, msg,
                    msg.Interaction \o msg.Mentions \o Flatten(msg.Reactions)))

-----------------------------------------------------------------------------
(* The messages of the model *)

UserIDs == {"U1", "U2"}
UserNames == {"zed", "alex"}

NoEmbed == [Title |-> <<>>, Description |-> <<>>, AuthorName |-> <<>>, Footer |-> <<>>]

BotMessage(c, embeds) ==
    [Channel |-> c, Author |-> [ID |-> botAuthorID, Name |-> "Rumble Royale"],
     Interaction |-> <<>>, Mentions |-> <<>>, Reactions |-> <<>>, Embeds |-> embeds]

\* a message written by a user
UserMessages ==
    {[Channel |-> mainChannelID, Author |-> [ID |-> u, Name |-> n],
      Interaction |-> <<>>, Mentions |-> <<>>, Reactions |-> <<>>, Embeds |-> <<>>] :
        u \in UserIDs, n \in UserNames}

\* "Rumble Royale hosted by zed" / "Era: Classic\n\nClick to join."
HostedCountdownEmbed(host) ==
    [NoEmbed EXCEPT
       !.Title = <<"Rumble Royale", " hosted by ", host>>,
       !.Description = <<"Era:", " ", "Classic", "\n", "\n", "Click to join.">>]

\* an automatic session: no host in the title, an emoji before the era
AutomaticCountdownEmbed ==
    [NoEmbed EXCEPT
       !.Title = <<"Rumble Royale">>,
       !.Description = <<"Era:", " ", "<:wol:1>", "Easter", " ", "\n", "\n",
                         "Click the emoji below to join. ", "Starting in ", "2 minutes!">>,
       !.Footer = <<"Automatic Session">>]

CountdownMessages ==
    {BotMessage(c, <<e>>) : c \in Channels,
                            e \in {HostedCountdownEmbed("zed"), AutomaticCountdownEmbed}}

\* "Started a new Rumble Royale session", Prize 6000, 1.5x XP multiplier
GameStartEmbed ==
    [NoEmbed EXCEPT
       !.Title = <<"Started a new ", "Rumble Royale session">>,
       !.Description = <<"**Number of participants:**", " ", "3", "0", "\n",
                         "**Era:**", " ", "<:wol:1>", "Easter", "\n",
                         "**Prize:**", " ", "6", "0", "0", "0", " ", "<:gold:6>", "\n",
                         "\n", "<:xp:7>", " ", "**", "1", ".", "5", "x XP multiplier",
                         "!", "**">>]

GameStartMessages == {BotMessage(c, <<GameStartEmbed>>) : c \in Channels}

CancelledEmbed == [NoEmbed EXCEPT !.Title = <<"Rumble Royale session cancelled">>]

CancelledMessages == {BotMessage(c, <<CancelledEmbed>>) : c \in Channels}

WinnerEmbed ==
    [NoEmbed EXCEPT
       !.Title = <<"<:Crwn2:8>", " ", "**", "__", "WINNER!", "__", "**">>,
       !.Description = <<"**", "zed", "**", "\n", "**Reward:**", " ", "6", "2", "0", "0">>]

RunnersUpEmbed == [NoEmbed EXCEPT !.Description = <<"**Runners-up**">>]

WinnerMessages == {BotMessage(c, <<WinnerEmbed, RunnersUpEmbed>>) : c \in Channels}

\* "__Round 1__" with one event line that names two users and one item
StandardRoundEmbed ==
    [NoEmbed EXCEPT
       !.Title = <<"__Round ", "1", "__">>,
       !.Description = <<"<:K:2>", " | ", "**", "zed", "**", " found a ", "__",
                         "Egg Launcher", "__", " and butchered ", "~~", "**", "alex",
                         "**", "~~", ".", "\n", "\n", "Players Left: ", "2", "7">>]

\* "__Round 1__ - STORM"
EventRoundEmbed ==
    [NoEmbed EXCEPT
       !.Title = <<"__Round ", "1", "__", " - ", "STORM">>,
       !.Description = <<"A storm is gathering in the arena!", "\n", "\n",
                         "The following players died:", "\n",
                         "<:S:4>", " | ", "~~", "**", "zed", "**", "~~", "\n", "\n",
                         "Players Left: ", "2", "6">>]

RoundMessages ==
    {BotMessage(c, <<e>>) : c \in Channels, e \in {StandardRoundEmbed, EventRoundEmbed}}

\* embeds that start no lifecycle rule
OtherMessages ==
    {BotMessage(mainChannelID, <<[NoEmbed EXCEPT !.Title = <<"Rumble Royale Info">>]>>)}

\* a message as the n-th message of the history: its ID and timestamp
Stamp(tpl, n) ==
    [ID |-> n, Timestamp |-> n, Channel |-> tpl.Channel, Author |-> tpl.Author,
     Interaction |-> tpl.Interaction, Mentions |-> tpl.Mentions,
     Reactions |-> tpl.Reactions, Embeds |-> tpl.Embeds]

Unstamp(msg) ==
    [Channel |-> msg.Channel, Author |-> msg.Author, Interaction |-> msg.Interaction,
     Mentions |-> msg.Mentions, Reactions |-> msg.Reactions, Embeds |-> msg.Embeds]

-----------------------------------------------------------------------------
(* Specification *)

EmptyStore ==
    [users |-> {}, observations |-> <<>>, games |-> <<>>, rounds |-> <<>>,
     interactions |-> <<>>, mentions |-> <<>>, interactionMessages |-> <<>>,
     items |-> {}]

\* the store after AutoMigrate on an empty database, and newProcessor
Init ==
    /\ users = {} /\ observations = <<>> /\ games = <<>> /\ rounds = <<>>
    /\ interactions = <<>> /\ mentions = <<>> /\ interactionMessages = <<>>
    /\ items = {}
    /\ channels = [c \in Channels |-> ZeroChannelState]
    /\ LastKnownGameID = 0
    /\ err = NoErr
    /\ archive = <<>>
    /\ run = 1
    /\ pos = 0
    /\ snapshot = EmptyStore
    /\ backupFiles = <<>>
    /\ fileIndex = 0
    /\ input = <<>>
    /\ output = <<>>

Commit(s) ==
    /\ users' = s.users /\ observations' = s.observations /\ games' = s.games
    /\ rounds' = s.rounds /\ interactions' = s.interactions /\ mentions' = s.mentions
    /\ interactionMessages' = s.interactionMessages /\ items' = s.items
    /\ channels' = s.channels /\ LastKnownGameID' = s.LastKnownGameID
    /\ err' = s.err

\* the first import has not failed and the history is not complete
CanReplay(max) == run = 1 /\ err = NoErr /\ Len(archive) < max

\* the first import replays one more message of the history
Deliver(tpl) ==
    LET msg == Stamp(tpl, Len(archive) + 1)
    IN /\ Commit(processMessage(Cur, msg))
       /\ archive' = Append(archive, msg)
       /\ UNCHANGED <<run, pos, snapshot>>
       /\ UNCHANGED aux

\* a message written by a user: processExport observes its author
UserMessage(max) ==
    /\ CanReplay(max)
    /\ \E tpl \in UserMessages : Deliver(tpl)

\* a countdown announcement of the bot
CountdownAnnouncement(max) ==
    /\ CanReplay(max)
    /\ \E tpl \in CountdownMessages : Deliver(tpl)

\* a "Started a new ..." announcement of the bot
GameStarted(max) ==
    /\ CanReplay(max)
    /\ \E tpl \in GameStartMessages : Deliver(tpl)

\* a "Rumble Royale session cancelled" announcement of the bot
SessionCancelled(max) ==
    /\ CanReplay(max)
    /\ \E tpl \in CancelledMessages : Deliver(tpl)

\* a "WINNER!" announcement of the bot
WinnerAnnouncement(max) ==
    /\ CanReplay(max)
    /\ \E tpl \in WinnerMessages : Deliver(tpl)

\* a "__Round n__" narrative of the bot
RoundNarrative(max) ==
    /\ CanReplay(max)
    /\ \E tpl \in RoundMessages : Deliver(tpl)

\* a bot embed that starts no lifecycle rule
OtherEmbed(max) ==
    /\ CanReplay(max)
    /\ \E tpl \in OtherMessages : Deliver(tpl)

Replay(max) ==
    \/ UserMessage(max)
    \/ CountdownAnnouncement(max)
    \/ GameStarted(max)
    \/ SessionCancelled(max)
    \/ WinnerAnnouncement(max)
    \/ RoundNarrative(max)
    \/ OtherEmbed(max)

Next == Replay(MaxMsgs)

Spec == Init /\ [][Next]_vars

\* runImport once more on the store the first import left: newProcessor
StartSecondImport ==
    /\ run = 1
    /\ err = NoErr
    /\ archive # <<>>
    /\ run' = 2
    /\ pos' = 0
    /\ snapshot' = StoreOf(Cur)
    /\ channels' = [c \in Channels |-> ZeroChannelState]
    /\ LastKnownGameID' = 0
    /\ UNCHANGED <<users, observations, games, rounds, interactions, mentions,
                   interactionMessages, items, err, archive>>
    /\ UNCHANGED aux

\* the second import replays the next message of the same history
ReplayAgain ==
    /\ run = 2
    /\ err = NoErr
    /\ pos < Len(archive)
    /\ Commit(processMessage(Cur, archive[pos + 1]))
    /\ pos' = pos + 1
    /\ UNCHANGED <<archive, run, snapshot>>
    /\ UNCHANGED aux

NextRerun == Replay(MaxRerunMsgs) \/ StartSecondImport \/ ReplayAgain

SpecRerun == Init /\ [][NextRerun]_vars

-----------------------------------------------------------------------------
(* A later import over new archives *)

\* runImport once more, on the store the first import left and on archives
\* with later messages: newProcessor
StartLaterImport ==
    /\ run = 1
    /\ err = NoErr
    /\ archive # <<>>
    /\ run' = 3
    /\ pos' = Len(archive)
    /\ snapshot' = StoreOf(Cur)
    /\ channels' = [c \in Channels |-> ZeroChannelState]
    /\ LastKnownGameID' = 0
    /\ UNCHANGED <<users, observations, games, rounds, interactions, mentions,
                   interactionMessages, items, err, archive>>
    /\ UNCHANGED aux

\* the later import replays a countdown or a "Started a new ..." announcement
LaterAnnouncement ==
    /\ run = 3
    /\ err = NoErr
    /\ Len(archive) < pos + MaxLaterMsgs
    /\ \E tpl \in CountdownMessages \cup GameStartMessages : Deliver(tpl)

NextLaterRun == Replay(MaxRerunMsgs) \/ StartLaterImport \/ LaterAnnouncement

SpecLaterRun == Init /\ [][NextLaterRun]_vars

-----------------------------------------------------------------------------
(* Further message shapes: identity hints, skipped embeds, incomplete starts *)

\* messages that carry an invoking user, mentions or reactions: countdowns of
\* the bot hosted by zed, and a user's message that quotes a "Started a new"
\* embed
HintedMessages ==
    {[BotMessage(mainChannelID, <<HostedCountdownEmbed("zed")>>) EXCEPT
         !.Interaction = <<[ID |-> u, Name |-> "zed"]>>] : u \in UserIDs}
    \cup {[BotMessage(mainChannelID, <<HostedCountdownEmbed("zed")>>) EXCEPT
             !.Mentions = <<[ID |-> "U2", Name |-> "alex"]>>,
             !.Reactions = <<<<[ID |-> "U1", Name |-> "zed"]>>>>],
          [Channel |-> mainChannelID, Author |-> [ID |-> "U2", Name |-> "alex"],
           Interaction |-> <<>>, Mentions |-> <<[ID |-> "U1", Name |-> "zed"]>>,
           Reactions |-> <<>>, Embeds |-> <<GameStartEmbed>>]}

\* embeds the switch of processExport skips: named shapes and an unknown one
IgnoredEmbeds ==
    {[NoEmbed EXCEPT !.Title = <<"Rumble Royale Overview">>],
     [NoEmbed EXCEPT !.Description = <<"Your inventory is empty.">>],
     [NoEmbed EXCEPT !.AuthorName = <<"zed", "'s Profile">>],
     [NoEmbed EXCEPT !.Description = <<"Starting in ", "1 minute!">>],
     [NoEmbed EXCEPT !.Title = <<"Halloween Special">>]}

\* a skipped embed on its own, and one followed by a "Started a new" embed
IgnoredMessages ==
    {BotMessage(mainChannelID, <<e>>) : e \in IgnoredEmbeds}
    \cup {BotMessage(mainChannelID,
                     <<[NoEmbed EXCEPT !.Title = <<"Halloween Special">>], GameStartEmbed>>)}

\* "Started a new Rumble Royale session" without the Prize line
NoPrizeEmbed ==
    [GameStartEmbed EXCEPT
       !.Description = <<"**Number of participants:**", " ", "3", "0", "\n",
                         "**Era:**", " ", "<:wol:1>", "Easter", "\n",
                         "\n", "<:xp:7>", " ", "**", "1", ".", "5", "x XP multiplier",
                         "!", "**">>]

\* "Started a new Rumble Royale session" without the XP multiplier line
NoMultiplierEmbed ==
    [GameStartEmbed EXCEPT
       !.Description = <<"**Number of participants:**", " ", "3", "0", "\n",
                         "**Era:**", " ", "<:wol:1>", "Easter", "\n",
                         "**Prize:**", " ", "6", "0", "0", "0", " ", "<:gold:6>">>]

\* "Started a new Rumble Royale session" with the multiplier written 1.2.3x
BadMultiplierEmbed ==
    [GameStartEmbed EXCEPT
       !.Description = <<"**Prize:**", " ", "6", "0", "0", "0", " ", "<:gold:6>", "\n",
                         "\n", "<:xp:7>", " ", "**", "1", ".", "2", ".", "3",
                         "x XP multiplier", "!", "**">>]

IncompleteStartMessages ==
    {BotMessage(mainChannelID, <<e>>) :
        e \in {NoPrizeEmbed, NoMultiplierEmbed, BadMultiplierEmbed}}

\* a message with an invoking user, mentions or reactions
HintedAnnouncement(max) ==
    /\ CanReplay(max)
    /\ \E tpl \in HintedMessages : Deliver(tpl)

\* a bot message whose first embed the switch skips
IgnoredEmbed(max) ==
    /\ CanReplay(max)
    /\ \E tpl \in IgnoredMessages : Deliver(tpl)

\* a "Started a new ..." announcement without a prize or a readable multiplier
IncompleteGameStart(max) ==
    /\ CanReplay(max)
    /\ \E tpl \in IncompleteStartMessages : Deliver(tpl)

NextShapes ==
    \/ Replay(MaxShapeMsgs)
    \/ HintedAnnouncement(MaxShapeMsgs)
    \/ IgnoredEmbed(MaxShapeMsgs)
    \/ IncompleteGameStart(MaxShapeMsgs)

SpecShapes == Init /\ [][NextShapes]_vars

-----------------------------------------------------------------------------
(* runImport: the export files of the channels *)

\* the paths filepath.Walk reaches, in the order processDir walks them: the
\* directory of shoppingChannelID first, each directory in lexical order
WalkOrder ==
    <<[Channel |-> shoppingChannelID, Base |-> "a.json"],
      [Channel |-> mainChannelID, Base |-> "a.json"],
      [Channel |-> mainChannelID, Base |-> "b.json"]>>

\* backupFile.file.Name(): the path the file was opened with
FileName(path) == "discord-exports/" \o path.Channel \o "/" \o path.Base

\* position of a file name in the lexical order of the names
NameRank(name) ==
    CASE name = FileName(WalkOrder[2]) -> 1
      [] name = FileName(WalkOrder[3]) -> 2
      [] name = FileName(WalkOrder[1]) -> 3

\* strings.Compare
Compare(a, b) ==
    IF a = b THEN 0 ELSE IF NameRank(a) < NameRank(b) THEN -1 ELSE 1

\* how an export writes the zone of its timestamps: "Z", the offset of the
\* zone the import runs in, or another offset
Zones == {"Z", "local offset", "other offset"}

\* time.Time.UnmarshalJSON: the instant and the *Location; "Z" gives UTC, the
\* local offset gives Local, any other offset a FixedZone: a pointer allocated
\* by this parse that no other time.Time holds (fresh), or the pointer the
\* library keeps for that offset, as the Go release and the offset have it
ParseTime(instant, zone, fresh, name) ==
    [instant |-> instant,
     loc |-> CASE zone = "Z" -> "UTC"
               [] zone = "local offset" -> "Local"
               [] OTHER -> IF fresh THEN "FixedZone of " \o name ELSE "FixedZone"]

\* the messages an export file can hold: messages of user U1, oldest first
FileMessages ==
    {q \in UNION {[1..n -> [Name : UserNames, Instant : 1..MaxInstant]] :
                     n \in 1..MaxFileMsgs} :
        \A i \in 1..(Len(q) - 1) : q[i].Instant <= q[i + 1].Instant}

\* walkFunc: the backupFile appended for a file, and what the file holds
BackupFile(path, zone, fresh, msgs) ==
    [Name |-> FileName(path), Channel |-> path.Channel, Messages |-> msgs,
     firstMessageTime |-> ParseTime(msgs[1].Instant, zone, fresh, FileName(path))]

\* the comparison function handed to slices.SortFunc
BackupFileCmp(a, b) ==
    IF a.firstMessageTime = b.firstMessageTime THEN Compare(a.Name, b.Name)
    ELSE IF a.firstMessageTime.instant > b.firstMessageTime.instant THEN 1
    ELSE -1

RECURSIVE InsertBackup(_, _)
\* one pass of the inner loop of the insertion sort: x moves towards the front
\* while it compares less than its left neighbour
InsertBackup(q, x) ==
    IF q = <<>> \/ BackupFileCmp(x, q[Len(q)]) >= 0 THEN Append(q, x)
    ELSE Append(InsertBackup(SubSeq(q, 1, Len(q) - 1), x), q[Len(q)])

RECURSIVE SortFunc(_)
\* slices.SortFunc on fewer than 12 elements: insertion sort
SortFunc(q) ==
    IF q = <<>> THEN <<>>
    ELSE InsertBackup(SortFunc(SubSeq(q, 1, Len(q) - 1)), q[Len(q)])

\* the message of the file under fileIndex that is replayed next
BackupMessage ==
    LET file == backupFiles[fileIndex]
        m == file.Messages[pos + 1]
    IN [ID |-> Len(archive) + 1, Timestamp |-> m.Instant, Channel |-> file.Channel,
        Author |-> [ID |-> "U1", Name |-> m.Name],
        Interaction |-> <<>>, Mentions |-> <<>>, Reactions |-> <<>>, Embeds |-> <<>>]

\* index in WalkOrder of the file the walk met last
LastWalked ==
    IF backupFiles = <<>> THEN 0
    ELSE CHOOSE i \in 1..Len(WalkOrder) :
            FileName(WalkOrder[i]) = backupFiles[Len(backupFiles)].Name

\* filepath.Walk calls walkFunc for the next export file
Walk ==
    /\ fileIndex = 0
    /\ \E i \in (LastWalked + 1)..Len(WalkOrder), msgs \in FileMessages,
          written \in {w \in Zones \X BOOLEAN : w[1] = "other offset" \/ w[2]} :
           backupFiles' = Append(backupFiles,
                              BackupFile(WalkOrder[i], written[1], written[2], msgs))
    /\ UNCHANGED <<users, observations, games, rounds, interactions, mentions,
                   interactionMessages, items, channels, LastKnownGameID, err,
                   archive, run, pos, snapshot, fileIndex, input, output>>

\* the walk is over: the files are sorted by the time of their first message
SortBackups ==
    /\ fileIndex = 0
    /\ backupFiles # <<>>
    /\ backupFiles' = SortFunc(backupFiles)
    /\ fileIndex' = 1
    /\ UNCHANGED <<users, observations, games, rounds, interactions, mentions,
                   interactionMessages, items, channels, LastKnownGameID, err,
                   archive, run, pos, snapshot, input, output>>

\* processExport replays the next message of the file under fileIndex; after
\* the last message of a file the loop goes to the next file
ReplayBackup ==
    /\ fileIndex \in 1..Len(backupFiles)
    /\ err = NoErr
    /\ Commit(processMessage(Cur, BackupMessage))
    /\ archive' = Append(archive, BackupMessage)
    /\ IF pos + 1 = Len(backupFiles[fileIndex].Messages)
       THEN fileIndex' = fileIndex + 1 /\ pos' = 0
       ELSE fileIndex' = fileIndex /\ pos' = pos + 1
    /\ UNCHANGED <<run, snapshot, backupFiles, input, output>>

NextFiles == Walk \/ SortBackups \/ ReplayBackup

SpecFiles == Init /\ [][NextFiles]_vars

-----------------------------------------------------------------------------
(* The extractors applied to narrative texts *)

\* a mention as the narrative writes it: ~~**name suffix**~~ or **name suffix**
MentionPiece(killed, name, suffix) ==
    [toks |-> (IF killed THEN <<"~~">> ELSE <<>>) \o <<"**">> \o name \o suffix
              \o <<"**">> \o (IF killed THEN <<"~~">> ELSE <<>>),
     mention |-> <<[UserName |-> Join(unescapeMarkdown(name)), Killed |-> killed,
                    Suffix |-> Join(suffix)]>>]

\* text that is no mention
WordPiece(toks) == [toks |-> toks, mention |-> <<>>]

\* the pieces of the narrative lines: mentions of zed and alex, plain and
\* struck through, with a suffix, with an escaped and an unescaped underscore,
\* words, and a bold word that is no user name
MentionPieces ==
    {MentionPiece(k, <<n>>, <<>>) : k \in BOOLEAN, n \in {"zed", "alex"}}
    \cup {MentionPiece(FALSE, <<"zed">>, <<" ", "the Great">>),
          MentionPiece(TRUE, <<"zed", "\\_">>, <<>>),
          MentionPiece(TRUE, <<"zed", "_">>, <<>>),
          WordPiece(<<" ", "killed", " ">>),
          WordPiece(<<"**", "WINNER", "**">>)}

\* the texts of at most MaxPieces pieces
MentionTexts == UNION {[1..n -> MentionPieces] : n \in 1..MaxPieces}

\* the text the pieces spell, as tokens
PiecesText(pieces) == Flatten([i \in 1..Len(pieces) |-> pieces[i].toks])

\* extractUsers applied to a narrative text
ApplyExtractUsers ==
    /\ input = <<>>
    /\ \E pieces \in MentionTexts :
          /\ input' = pieces
          /\ output' = extractUsers(Cur, PiecesText(pieces))
    /\ UNCHANGED <<users, observations, games, rounds, interactions, mentions,
                   interactionMessages, items, channels, LastKnownGameID, err,
                   archive, run, pos, snapshot, backupFiles, fileIndex>>

SpecExtractUsers == Init /\ [][ApplyExtractUsers]_vars

\* an item as the narrative writes it: __name__
ItemPiece(name) == [toks |-> <<"__", name, "__">>, item |-> <<name>>]

\* the pieces of the narrative lines: two items, words, and the placeholder
\* extractUsers has left for a mention
ItemPieces ==
    {ItemPiece(n) : n \in {"Golden Egg", "Katana"}}
    \cup {[toks |-> <<" ", "with", " ">>, item |-> <<>>],
          [toks |-> <<"{{users[0]}}">>, item |-> <<>>]}

ItemTexts == UNION {[1..n -> ItemPieces] : n \in 1..MaxPieces}

\* extractItems applied to a narrative text, on the store earlier texts left
ApplyExtractItems ==
    /\ \E pieces \in ItemTexts :
          LET Returned(r) ==
                  /\ input' = pieces
                  /\ output' = [msg |-> r.msg, items |-> r.items, err |-> r.err]
                  /\ items' = r.s.items
          IN Returned(extractItems(Cur, PiecesText(pieces)))
    /\ UNCHANGED <<users, observations, games, rounds, interactions, mentions,
                   interactionMessages, channels, LastKnownGameID, err,
                   archive, run, pos, snapshot, backupFiles, fileIndex>>

SpecExtractItems == Init /\ [][ApplyExtractItems]_vars

\* the templates and event labels lookupInteractionMessage is called with:
\* lines of standard rounds have the event "", event rounds their title
TemplateTexts ==
    {<<"{{users[0]}}", " found a ", "{{item}}">>,
     <<"A storm is gathering in the arena!">>,
     <<"The arena floods.">>}

EventLabels == {"", "STORM", "FLOOD"}

\* lookupInteractionMessage applied to a template and an event label, on the
\* store earlier calls left
ApplyLookupInteractionMessage ==
    /\ \E text \in TemplateTexts, event \in EventLabels :
          LET Returned(r) ==
                  /\ input' = <<text, event>>
                  /\ output' = [id |-> r.id, err |-> r.err]
                  /\ interactionMessages' = r.s.interactionMessages
          IN Returned(lookupInteractionMessage(Cur, text, event))
    /\ UNCHANGED <<users, observations, games, rounds, interactions, mentions,
                   items, channels, LastKnownGameID, err,
                   archive, run, pos, snapshot, backupFiles, fileIndex>>

SpecLookupMessage == Init /\ [][ApplyLookupInteractionMessage]_vars

-----------------------------------------------------------------------------
(* Vocabulary of the properties *)

LastMsg == archive[Len(archive)]

\* this step of the first import replayed a message of the given shapes in channel c
Delivered(shapes, c) ==
    /\ Len(archive') = Len(archive) + 1
    /\ Unstamp(archive'[Len(archive')]) \in shapes
    /\ archive'[Len(archive')].Channel = c

\* the last message replayed by the first import has one of the given shapes
LastWas(shapes, c) ==
    /\ run = 1 /\ archive # <<>>
    /\ Unstamp(LastMsg) \in shapes /\ LastMsg.Channel = c

CurrentGame(c) == channels[c].LastKnownGame
CurrentRound(c) == channels[c].LastKnownRound
Running(c) == channels[c].LastKnownIsGameRunning

\* a Game that is counting down or started and neither ended nor cancelled
Active(g) == g.ID # 0 /\ g.EndTime = NilTime /\ ~g.Cancelled

\* the IDs of the active Games of channel c, in memory and in the store
ActiveGameIDs(c) ==
    {k \in DOMAIN games : games[k].DiscordChannelID = c /\ Active(games[k])}
    \cup (IF Active(CurrentGame(c)) THEN {CurrentGame(c).ID} ELSE {})

\* the Game, Round and Interaction tables
LifecycleTables ==
    <<games, rounds, interactions, mentions, interactionMessages, items>>

-----------------------------------------------------------------------------
(* C1: a second import over the same archives completes without error and  *)
(* leaves the store with the same Actors, Items, InteractionMessages, Games *)
(* and Rounds as the first import.                                          *)
C1_SecondImportLeavesStore ==
    run = 2 =>
        /\ err = NoErr
        /\ pos = Len(archive) =>
              /\ users = snapshot.users
              /\ items = snapshot.items
              /\ interactionMessages = snapshot.interactionMessages
              /\ games = snapshot.games
              /\ rounds = snapshot.rounds

(* C2: for every Game the round numbers of its persisted Rounds are 1..n,  *)
(* the first Round persisted after a countdown announcement having number 1 *)
C2_RoundNumbersFromOne ==
    \A k \in DOMAIN games :
        LET mine == {i \in 1..Len(rounds) : rounds[i].GameID = k}
        IN {rounds[i].RoundNumber : i \in mine} = 1..Cardinality(mine)

(* C3: a stored Game whose host name had no observation when the countdown *)
(* was announced has as host actor the actor of the first observation of    *)
(* that name appended later.                                                *)
C3_HostBackfilled ==
    \A k \in DOMAIN games :
        LET g == games[k]
            before == {i \in 1..Len(observations) :
                          /\ observations[i].Name = g.HostUserName
                          /\ observations[i].Time < g.CountdownStartTime}
            later == {i \in 1..Len(observations) :
                          /\ observations[i].Name = g.HostUserName
                          /\ observations[i].Time > g.CountdownStartTime}
        IN (g.HostUserName # Nil /\ before = {} /\ later # {})
               => g.HostUserID = observations[Min(later)].UserID

(* C4: each channel has at most one active Game, counting the channel's    *)
(* current Game and the Games persisted for the channel.                    *)
C4_OneActiveGamePerChannel ==
    \A c \in Channels : Cardinality(ActiveGameIDs(c)) <= 1

(* C5: a persisted Game that has an end time keeps its start time and its  *)
(* end time, and a persisted Game that has a start time keeps having one.   *)
C5_LifecycleForward ==
    [][\A k \in DOMAIN games :
          /\ games[k].EndTime # NilTime =>
                /\ k \in DOMAIN games'
                /\ games'[k].StartTime = games[k].StartTime
                /\ games'[k].EndTime # NilTime
          /\ games[k].StartTime # NilTime =>
                k \in DOMAIN games' /\ games'[k].StartTime # NilTime]_vars

\* the message this step replayed
Replayed == archive'[Len(archive')]

\* the state a countdown announcement leaves a channel in
CountingDown(c) ==
    /\ ~Running(c)
    /\ CurrentGame(c).ID # 0
    /\ CurrentGame(c).CountdownStartTime # NilTime
    /\ CurrentGame(c).StartTime = NilTime
    /\ CurrentGame(c).EndTime = NilTime

C7_CountdownCreatesFreshGame ==
    [][\A c \in Channels :
          Delivered(CountdownMessages, c) =>
              LET g == channels'[c].LastKnownGame
              IN /\ err' = NoErr
                 /\ g.ID \notin DOMAIN games
                 /\ g.ID \notin {CurrentGame(d).ID : d \in Channels}
                 /\ Replayed.Embeds[1] = HostedCountdownEmbed("zed") =>
                        g.Era = "Classic" /\ g.HostUserName = "zed"
                 /\ Replayed.Embeds[1] = AutomaticCountdownEmbed =>
                        g.Era = "Easter" /\ g.HostUserName = Nil
                 /\ g.CountdownStartTime = Replayed.Timestamp
                 /\ g.StartTime = NilTime /\ g.EndTime = NilTime
                 /\ ~channels'[c].LastKnownIsGameRunning]_vars

(* C8: a "game started" announcement in CountingDown sets the start time to *)
(* the message's timestamp, the reward to 6000 and the XP multiplier to 1.5 *)
(* as the description says, saves the Game under the ID given at the        *)
(* countdown and leaves the channel Running.                                *)
C8_GameStartPersists ==
    [][\A c \in Channels :
          (Delivered(GameStartMessages, c) /\ CountingDown(c)) =>
              LET g == CurrentGame(c)
                  started == [g EXCEPT !.StartTime = Replayed.Timestamp,
                                       !.RewardCoins = 6000,
                                       !.XPMultiplier = <<15, 1>>]
              IN /\ err' = NoErr
                 /\ channels'[c].LastKnownIsGameRunning
                 /\ channels'[c].LastKnownGame = started
                 /\ g.ID \in DOMAIN games'
                 /\ games'[g.ID] = started]_vars

\* a game has been started right after its countdown
C8_StartedAfterCountdown ==
    \E c \in Channels :
        /\ LastWas(GameStartMessages, c)
        /\ Len(archive) >= 2
        /\ Unstamp(archive[Len(archive) - 1]) \in CountdownMessages
        /\ archive[Len(archive) - 1].Channel = c
        /\ err = NoErr
        /\ Running(c)
        /\ CurrentGame(c).ID \in DOMAIN games
        /\ games[CurrentGame(c).ID].RewardCoins = 6000
        /\ games[CurrentGame(c).ID].XPMultiplier = <<15, 1>>
        /\ games[CurrentGame(c).ID].StartTime = LastMsg.Timestamp

(* C9: while a channel is Running a winner announcement sets the end time   *)
(* of the current Game to the message's timestamp and saves it; a cancelled *)
(* announcement also sets the cancelled flag; the channel is then not       *)
(* running, and the winner path leaves the cancelled flag as it was.        *)
C9_WinnerAndCancelledEndGame ==
    [][\A c \in Channels :
          LET g == CurrentGame(c)
              Ended(ended) ==
                  /\ err' = NoErr
                  /\ ~channels'[c].LastKnownIsGameRunning
                  /\ channels'[c].LastKnownGame = ended
                  /\ g.ID \in DOMAIN games'
                  /\ games'[g.ID] = ended
          IN /\ (Running(c) /\ Delivered(WinnerMessages, c)) =>
                    Ended([g EXCEPT !.EndTime = Replayed.Timestamp])
             /\ (Running(c) /\ Delivered(CancelledMessages, c)) =>
                    Ended([g EXCEPT !.EndTime = Replayed.Timestamp,
                                    !.Cancelled = TRUE])]_vars

\* one Game was ended by a winner announcement and another one was cancelled
C9_OneWonOneCancelled ==
    \E c \in Channels, k \in DOMAIN games :
        /\ LastWas(CancelledMessages, c)
        /\ ~Running(c)
        /\ CurrentGame(c).ID \in DOMAIN games
        /\ games[CurrentGame(c).ID].Cancelled
        /\ games[CurrentGame(c).ID].EndTime = LastMsg.Timestamp
        /\ k # CurrentGame(c).ID
        /\ games[k].EndTime # NilTime
        /\ ~games[k].Cancelled

\* the observation log of one actor
LogOf(u) == SelectSeq(observations, LAMBDA o : o.UserID = u)

(* C10: observeUserName with the name of the actor's latest observation     *)
(* writes nothing, a second call with the same actor and name changes       *)
(* nothing after the first, and no actor's log holds the same name twice in *)
(* a row.                                                                   *)
C10_ObserveIdempotent ==
    /\ \A u \in UserIDs : \A i \in 1..(Len(LogOf(u)) - 1) :
           LogOf(u)[i].Name # LogOf(u)[i + 1].Name
    /\ err = NoErr =>
         \A u \in UserIDs, n \in UserNames :
           LET first == [Timestamp |-> Len(archive) + 1]
               second == [Timestamp |-> Len(archive) + 2]
               Twice(s1) == observeUserName(s1, second, u, n) = s1
           IN /\ Twice(observeUserName(Cur, first, u, n))
              /\ (LogOf(u) # <<>> /\ LogOf(u)[Len(LogOf(u))].Name = n)
                    => observeUserName(Cur, first, u, n) = Cur

\* a user wrote again under the name of their latest observation, and had
\* another name before
C10_SameNameSeenAgain ==
    \E u \in UserIDs :
        /\ LastWas(UserMessages, mainChannelID)
        /\ LastMsg.Author.ID = u
        /\ Len(LogOf(u)) >= 2
        /\ LogOf(u)[Len(LogOf(u))].Name = LastMsg.Author.Name
        /\ LogOf(u)[Len(LogOf(u))].Time < LastMsg.Timestamp
        /\ err = NoErr

(* C11: each actor's observation log is in nondecreasing order of the      *)
(* observed-at time, so that the observation appended last, which          *)
(* observeUserName and lookupUserName read as the current name, is the      *)
(* latest one; for any files of one or several channels replayed in the     *)
(* order the loader produces.                                               *)
C11_LogChronological ==
    \A u \in UserIDs :
        \A i \in 1..(Len(LogOf(u)) - 1) : LogOf(u)[i].Time <= LogOf(u)[i + 1].Time

RECURSIVE Distinct(_)
\* the elements of a sequence in the order of their first occurrence
Distinct(q) ==
    IF q = <<>> THEN <<>>
    ELSE LET front == Distinct(SubSeq(q, 1, Len(q) - 1))
         IN IF \E i \in 1..Len(front) : front[i] = q[Len(q)] THEN front
            ELSE Append(front, q[Len(q)])

\* the (name, suffix, killed) triples the pieces of a text mention, in order
TriplesOf(pieces) ==
    Flatten([i \in 1..Len(pieces) |-> pieces[i].mention])

\* the text with every mention replaced by the placeholder of its triple
TemplateOf(pieces) ==
    LET triples == Distinct(TriplesOf(pieces))
        Index(x) == (CHOOSE i \in 1..Len(triples) : triples[i] = x) - 1
    IN Flatten([i \in 1..Len(pieces) |->
           IF pieces[i].mention = <<>> THEN pieces[i].toks
           ELSE <<"{{users[" \o ToString(Index(pieces[i].mention[1])) \o "]}}">>])

(* C12: extractUsers returns one mention per distinct (name, suffix, killed) *)
(* triple, in the order of first occurrence, and replaces every mention by   *)
(* {{users[i]}}, i being the index of its triple in the returned list.       *)
C12_OneMentionPerTriple ==
    input # <<>> =>
        /\ output.err = NoErr
        /\ [i \in 1..Len(output.userInteractions) |->
               [UserName |-> output.userInteractions[i].UserName,
                Killed |-> output.userInteractions[i].Killed,
                Suffix |-> output.userInteractions[i].Suffix]]
           = Distinct(TriplesOf(input))
        /\ output.msg = TemplateOf(input)

\* zed struck through twice and once plain: two mentions, the struck-through
\* one referenced by two placeholders
C12_TwiceStruckThrough ==
    /\ input = <<MentionPiece(TRUE, <<"zed">>, <<>>),
                 MentionPiece(FALSE, <<"zed">>, <<>>),
                 MentionPiece(TRUE, <<"zed">>, <<>>)>>
    /\ output.msg = <<"{{users[0]}}", "{{users[1]}}", "{{users[0]}}">>
    /\ Len(output.userInteractions) = 2
    /\ output.userInteractions[1].Killed
    /\ ~output.userInteractions[2].Killed

\* the item names the pieces of a text mention, in order
ItemsOf(pieces) == Flatten([i \in 1..Len(pieces) |-> pieces[i].item])

(* C13: extractItems fails with the multi-item error and creates no Item    *)
(* for a text with more than one item mention; for one mention it returns   *)
(* the Item of that name, stored once, and puts {{item}} in its place; for  *)
(* no mention it returns the text as it was and no item.                    *)
C13_AtMostOneItem ==
    [][LET mentioned == ItemsOf(input')
           text == PiecesText(input')
       IN /\ Len(mentioned) > 1 =>
                /\ output'.err = "more than 1 item mention found in message which is not yet supported: "
                                 \o Join(text)
                /\ output'.items = <<>>
                /\ items' = items
          /\ Len(mentioned) = 1 =>
                /\ output'.err = NoErr
                /\ output'.items = mentioned
                /\ items' = items \cup {mentioned[1]}
                /\ output'.msg = Flatten([i \in 1..Len(input') |->
                                     IF input'[i].item = <<>> THEN input'[i].toks
                                     ELSE <<"{{item}}">>])
          /\ Len(mentioned) = 0 =>
                /\ output'.err = NoErr
                /\ output'.items = <<>>
                /\ output'.msg = text
                /\ items' = items]_vars

\* a text with two items was refused after a text with one item was taken
C13_TwoItemsRefused ==
    /\ Len(input) >= 2
    /\ Len(ItemsOf(input)) = 2
    /\ output.err # NoErr
    /\ items = {"Katana"}

\* the users a message gives a name to: the invoking user, the mentioned and
\* the reacting users, and the author unless the author is the bot
HintsOf(msg) ==
    msg.Interaction \o msg.Mentions \o Flatten(msg.Reactions)
    \o (IF msg.Author.ID # botAuthorID THEN <<msg.Author>> ELSE <<>>)

\* the actor of the latest observation of a name in a log, Nil if there is none
LastNamed(log, name) ==
    LET hits == {i \in 1..Len(log) : log[i].Name = name}
    IN IF hits = {} THEN Nil ELSE log[Max(hits)].UserID

(* C14: for every message observeUserName is called for the invoking user, *)
(* each mentioned and each reacting user, and for the author unless it is   *)
(* the bot, before the embeds are classified: every hinted name is in the   *)
(* log when the message is done, a countdown hosted by a user the message   *)
(* itself names has that user as resolved host, and a message whose author  *)
(* is not the bot leaves every channel's current Game, current Round and    *)
(* running flag as they were.                                               *)
C14_ObservedBeforeClassified ==
    [][archive' # archive =>
          LET hints == HintsOf(Replayed)
              c == Replayed.Channel
          IN /\ err' = NoErr =>
                   \A h \in 1..Len(hints) :
                      \E i \in 1..Len(observations') :
                         /\ observations'[i].UserID = hints[h].ID
                         /\ observations'[i].Name = hints[h].Name
                         /\ i > Len(observations) =>
                               observations'[i].Time = Replayed.Timestamp
             /\ Replayed.Author.ID # botAuthorID => channels' = channels
             /\ (/\ Replayed.Author.ID = botAuthorID
                 /\ Replayed.Embeds = <<HostedCountdownEmbed("zed")>>
                 /\ \E h \in 1..Len(hints) : hints[h].Name = "zed") =>
                   /\ channels'[c].LastKnownGame.HostUserID \in UserIDs
                   /\ channels'[c].LastKnownGame.HostUserID
                         = LastNamed(observations', "zed")]_vars

\* the first message of a history is a countdown hosted by zed that U1 invoked
\* under the name zed, and the Game's host is U1
C14_InvokerIsHost ==
    /\ Len(archive) = 1
    /\ archive[1].Interaction = <<[ID |-> "U1", Name |-> "zed"]>>
    /\ archive[1].Embeds = <<HostedCountdownEmbed("zed")>>
    /\ CurrentGame(mainChannelID).HostUserID = "U1"
    /\ err = NoErr

(* C15: a bot embed that no lifecycle rule matches, named in the switch or  *)
(* not, gives no error, leaves the channel's current Game, current Round    *)
(* and running flag and the Game, Round and Interaction tables as they      *)
(* were, and the embeds and messages after it are processed.                *)
C15_SkippedEmbedsChangeNothing ==
    [][/\ \A c \in Channels :
            Delivered({m \in IgnoredMessages \cup OtherMessages : Len(m.Embeds) = 1}, c) =>
                /\ err' = NoErr
                /\ channels' = channels
                /\ LifecycleTables' = LifecycleTables
       /\ \A c \in Channels :
            Delivered({m \in IgnoredMessages : Len(m.Embeds) = 2}, c) =>
                LET Same(s) ==
                        /\ channels' = s.channels
                        /\ games' = s.games
                        /\ err' = s.err
                IN /\ err' = NoErr
                   /\ channels'[c].LastKnownIsGameRunning
                   /\ Same(processGameStart(Cur, c, Replayed, Replayed.Embeds[2]))]_vars

\* after a skipped embed the "Started a new" embed of the next message, itself
\* behind a skipped embed, has started a Game
C15_StartedBehindSkipped ==
    /\ Len(archive) >= 2
    /\ Unstamp(archive[Len(archive) - 1]) \in IgnoredMessages
    /\ Len(archive[Len(archive) - 1].Embeds) = 1
    /\ LastWas({m \in IgnoredMessages : Len(m.Embeds) = 2}, mainChannelID)
    /\ Running(mainChannelID)
    /\ \E k \in DOMAIN games : games[k].StartTime = LastMsg.Timestamp
    /\ err = NoErr

(* C16: every error a handler raises while a message is processed ends the *)
(* run and is returned wrapped with the ID of that message; none is dropped *)
(* and reported as success.                                                 *)
C16_ErrorsEndRunWrapped ==
    [][\A c \in Channels :
          LET Raised(r) == r.err # NoErr => err' = wrapError(Replayed, r.err)
          IN /\ Delivered(CountdownMessages, c) =>
                   Raised(processGameCountdownStart(Cur, c, Replayed, Replayed.Embeds[1]))
             /\ Delivered(GameStartMessages, c) =>
                   Raised(processGameStart(Cur, c, Replayed, Replayed.Embeds[1]))
             /\ Delivered(RoundMessages, c) =>
                   Raised(processRound(Cur, c, Replayed, Replayed.Embeds[1]))
             /\ Delivered(CancelledMessages, c) =>
                   Raised(processGameCancelled(Cur, c, Replayed))
             /\ Delivered(WinnerMessages, c) =>
                   Raised(processGameWinner(Cur, c, Replayed))]_vars

(* C17: a "game started" message whose description gives no prize or no XP *)
(* multiplier, or one that is no number, is a hard error that ends the run; *)
(* its Game is not saved with a default in place of the value.              *)
C17_IncompleteStartIsFatal ==
    [][\A c \in Channels :
          Delivered(IncompleteStartMessages, c) =>
              /\ err' # NoErr
              /\ games' = games]_vars

(* C18: the export files are replayed in ascending order of the time of    *)
(* their first message, files whose first messages have the same instant in *)
(* the lexical order of their names, and the comparison is antisymmetric    *)
(* and transitive for all files.                                            *)
C18_SortedByTimeThenName ==
    /\ \A i, j \in 1..Len(backupFiles) :
          BackupFileCmp(backupFiles[i], backupFiles[j])
             = 0 - BackupFileCmp(backupFiles[j], backupFiles[i])
    /\ \A i, j, k \in 1..Len(backupFiles) :
          (/\ BackupFileCmp(backupFiles[i], backupFiles[j]) < 0
           /\ BackupFileCmp(backupFiles[j], backupFiles[k]) < 0)
             => BackupFileCmp(backupFiles[i], backupFiles[k]) < 0
    /\ fileIndex >= 1 =>
          \A i, j \in 1..Len(backupFiles) :
             i < j =>
                LET a == backupFiles[i]
                    b == backupFiles[j]
                IN \/ a.firstMessageTime.instant < b.firstMessageTime.instant
                   \/ /\ a.firstMessageTime.instant = b.firstMessageTime.instant
                      /\ NameRank(a.Name) < NameRank(b.Name)

\* the rows of interaction_messages with a text and an event
RowsWith(text, event) ==
    {i \in 1..Len(interactionMessages) :
        /\ interactionMessages[i].Text = text
        /\ interactionMessages[i].Event = event}

(* C19: InteractionMessages are unique on (text, event): the lookup of a    *)
(* stored pair returns its record and creates nothing, the lookup of a pair *)
(* that is not stored, also of a stored text with another event, succeeds   *)
(* and creates one new record, and no two records share (text, event).      *)
C19_UniqueOnTextAndEvent ==
    [][input' # <<>> =>
          LET text == input'[1]
              event == input'[2]
          IN /\ output'.err = NoErr
             /\ RowsWith(text, event) # {} =>
                   /\ interactionMessages' = interactionMessages
                   /\ output'.id \in RowsWith(text, event)
             /\ RowsWith(text, event) = {} =>
                   /\ interactionMessages'
                         = Append(interactionMessages, [Text |-> text, Event |-> event])
                   /\ output'.id = Len(interactionMessages')
             /\ \A i, j \in 1..Len(interactionMessages') :
                   (/\ interactionMessages'[i].Text = interactionMessages'[j].Text
                    /\ interactionMessages'[i].Event = interactionMessages'[j].Event)
                      => i = j]_vars

(* C20: a later run starts its Game ID counter above the largest Game ID   *)
(* of the store, so a Game it creates never has the ID of a Game an earlier *)
(* run persisted and never overwrites that Game's row.                      *)
C20_LaterRunKeepsEarlierGames ==
    run = 3 =>
        /\ \A c \in Channels :
              CurrentGame(c).CountdownStartTime > pos =>
                  CurrentGame(c).ID \notin DOMAIN snapshot.games
        /\ \A k \in DOMAIN snapshot.games :
              /\ k \in DOMAIN games
              /\ games[k].CountdownStartTime = snapshot.games[k].CountdownStartTime
              /\ games[k].StartTime = snapshot.games[k].StartTime
              /\ games[k].DiscordChannelID = snapshot.games[k].DiscordChannelID

(* C21: while a channel is Running a round narrative persists exactly one   *)
(* Round of the current Game, posted at the message's timestamp, advances   *)
(* the round counter by one and leaves the channel Running; the standard    *)
(* round persists one Interaction for its one emoji-tagged line, the event  *)
(* round one Interaction for its description, and no two Rounds of the      *)
(* store share game and round number.                                       *)
C21_RoundPersisted ==
    [][\A c \in Channels :
          (Delivered(RoundMessages, c) /\ Running(c)) =>
              LET g == CurrentGame(c)
                  r == CurrentRound(c)
                  n == Len(rounds')
              IN /\ err' = NoErr
                 /\ n = Len(rounds) + 1
                 /\ rounds'[n].GameID = g.ID
                 /\ rounds'[n].RoundNumber = r.RoundNumber
                 /\ rounds'[n].PostTime = Replayed.Timestamp
                 /\ channels'[c].LastKnownRound.RoundNumber = r.RoundNumber + 1
                 /\ channels'[c].LastKnownGame = g
                 /\ channels'[c].LastKnownIsGameRunning
                 /\ Len(interactions') = Len(interactions) + 1
                 /\ interactions'[Len(interactions')].RoundID = rounds'[n].ID
                 /\ \A i, j \in 1..n :
                       (/\ rounds'[i].GameID = rounds'[j].GameID
                        /\ rounds'[i].RoundNumber = rounds'[j].RoundNumber)
                          => i = j]_vars

-----------------------------------------------------------------------------
(* The dump command *)

\* runDump up to the header: [latestTimestamp, err]; Last(&lastGame) and
\* Last(&lastRound) take the row with the largest primary key
runDump(s) ==
    LET lastGame == s.games[Max(DOMAIN s.games)]
        lastRound == s.rounds[Len(s.rounds)]
        gameTimestamps ==
            IF DOMAIN s.games = {} THEN {}
            ELSE {lastGame.CountdownStartTime}
                 \cup (IF lastGame.StartTime # NilTime THEN {lastGame.EndTime} ELSE {})
                 \cup (IF lastGame.EndTime # NilTime THEN {lastGame.EndTime} ELSE {})
        timestamps ==
            gameTimestamps \cup (IF s.rounds = <<>> THEN {} ELSE {lastRound.PostTime})
    IN IF /\ DOMAIN s.games # {}
          /\ lastGame.StartTime # NilTime
          /\ lastGame.EndTime = NilTime
       THEN [latestTimestamp |-> NilTime, err |-> "panic: nil pointer dereference"]
       ELSE [latestTimestamp |-> Max(timestamps \cup {NilTime}), err |-> NoErr]

\* the dump command on the store an import left
Dump ==
    /\ run = 1
    /\ err = NoErr
    /\ run' = 4
    /\ output' = runDump(Cur)
    /\ UNCHANGED <<users, observations, games, rounds, interactions, mentions,
                   interactionMessages, items, channels, LastKnownGameID, err,
                   archive, pos, snapshot, backupFiles, fileIndex, input>>

NextDump == Replay(MaxRerunMsgs) \/ Dump

SpecDump == Init /\ [][NextDump]_vars

(* C22: the latest timestamp of the dump header is the maximum of the last  *)
(* stored Game's countdown-start, start and end time (where set) and the    *)
(* last stored Round's post time, and the dump computes it for every store  *)
(* an import leaves, a last Game that has started and not ended included.   *)
C22_LatestTimestamp ==
    run = 4 =>
        LET gameTimes ==
                IF DOMAIN games = {} THEN {}
                ELSE LET g == games[Max(DOMAIN games)]
                     IN {g.CountdownStartTime, g.StartTime, g.EndTime}
            roundTimes ==
                IF rounds = <<>> THEN {} ELSE {rounds[Len(rounds)].PostTime}
        IN /\ output.err = NoErr
           /\ output.latestTimestamp = Max(gameTimes \cup roundTimes \cup {NilTime})

(* C23: a stored Game whose host is resolved, at creation or by the         *)
(* backfill of observeUserName, keeps a resolved host: no later save of the *)
(* channel's current Game writes that Game back with an unresolved host.    *)
C23_HostStaysResolved ==
    [][\A k \in DOMAIN games :
          (/\ games[k].HostUserID # Nil
           /\ k \in DOMAIN games'
           /\ games'[k].DiscordChannelID = games[k].DiscordChannelID
           /\ games'[k].CountdownStartTime = games[k].CountdownStartTime)
              => games'[k].HostUserID # Nil]_vars

(* C24: within one run distinct Games never share an ID: the Game of a      *)
(* countdown announcement gets an ID that no stored Game and no channel's   *)
(* current Game has, the ID the store gave to a Game started before any     *)
(* countdown included, and no step replaces the row of one Game by another  *)
(* Game (another channel or another countdown).                             *)
C24_GameIDsNeverShared ==
    [][/\ \A c \in Channels :
             (Delivered(CountdownMessages, c) /\ err' = NoErr) =>
                 /\ channels'[c].LastKnownGame.ID \notin DOMAIN games
                 /\ \A d \in Channels \ {c} :
                       channels'[d].LastKnownGame.ID # channels'[c].LastKnownGame.ID
       /\ \A k \in DOMAIN games :
             /\ k \in DOMAIN games'
             /\ games'[k].DiscordChannelID = games[k].DiscordChannelID
             /\ games'[k].CountdownStartTime = games[k].CountdownStartTime]_vars

(* C25: a cancelled announcement seen while no Game is running is ignored   *)
(* without error only if the channel never had a Game; if the channel has a *)
(* Game that is not running the run ends with an error; either way no Game  *)
(* is persisted and the channel's state stays as it was.                     *)
C25_CancelledWhenNotRunning ==
    [][\A c \in Channels :
          (Delivered(CancelledMessages, c) /\ ~Running(c)) =>
              /\ CurrentGame(c).ID = 0 => err' = NoErr
              /\ CurrentGame(c).ID # 0 => err' # NoErr
              /\ games' = games
              /\ channels' = channels]_vars

-----------------------------------------------------------------------------
(* Responses to user-specific commands, and the name "menardi" *)

\* the bot's responses to a user's balance, backpacks and items command: the
\* embed author is "zed's balance" ...; with the invoking user, and without
CommandMessages ==
    {[BotMessage(mainChannelID, <<[NoEmbed EXCEPT !.AuthorName = <<"zed", command>>]>>)
         EXCEPT !.Interaction = invoker] :
        command \in {"'s balance", "'s backpacks", "'s Classic Era Items and Skins"},
        invoker \in {<<>>} \cup {<<[ID |-> u, Name |-> "alex"]>> : u \in UserIDs}}

\* messages written by a user whose name is menardi
MenardiMessages ==
    {[Channel |-> mainChannelID, Author |-> [ID |-> u, Name |-> "menardi"],
      Interaction |-> <<>>, Mentions |-> <<>>, Reactions |-> <<>>, Embeds |-> <<>>] :
        u \in UserIDs}

\* a round narrative whose one event line names menardi
MenardiRoundMessages ==
    {BotMessage(mainChannelID,
        <<[NoEmbed EXCEPT
             !.Title = <<"__Round ", "2", "__">>,
             !.Description = <<"<:ra:3>", " | ", "**", "menardi", "**",
                               " spent the day in a strange warehouse.", "\n", "\n",
                               "Players Left: ", "2", "7">>]>>)}

\* the bot answers a user-specific command
CommandResponse(max) ==
    /\ CanReplay(max)
    /\ \E tpl \in CommandMessages : Deliver(tpl)

\* a user named menardi writes a message
MenardiMessage(max) ==
    /\ CanReplay(max)
    /\ \E tpl \in MenardiMessages : Deliver(tpl)

\* a round narrative about menardi
MenardiRound(max) ==
    /\ CanReplay(max)
    /\ \E tpl \in MenardiRoundMessages : Deliver(tpl)

NextNames ==
    \/ UserMessage(MaxNameMsgs)
    \/ GameStarted(MaxNameMsgs)
    \/ CommandResponse(MaxNameMsgs)
    \/ MenardiMessage(MaxNameMsgs)
    \/ MenardiRound(MaxNameMsgs)

SpecNames == Init /\ [][NextNames]_vars

(* C26: a bot message whose embed author matches "'s balance", "'s          *)
(* backpacks" or "'s Classic Era Items and Skins" and that carries no       *)
(* interaction does not end the run and observes no name.                   *)
C26_CommandWithoutInvoker ==
    [][\A c \in Channels :
          Delivered({m \in CommandMessages : m.Interaction = <<>>}, c) =>
              /\ err' = NoErr
              /\ observations' = observations
              /\ users' = users]_vars

(* C27: observeUserName for a user's message succeeds for every display     *)
(* name when the store operations succeed: it appends an observation        *)
(* exactly when the name differs from the author's latest observation, and  *)
(* the run continues whatever the name is and whether or not an unresolved  *)
(* mention carries it.                                                      *)
C27_ObserveSucceedsForEveryName ==
    [][\A c \in Channels :
          Delivered(UserMessages \cup MenardiMessages, c) =>
              LET log == LogOf(Replayed.Author.ID)
                  known == log # <<>> /\ log[Len(log)].Name = Replayed.Author.Name
              IN /\ err' = NoErr
                 /\ known <=> observations' = observations]_vars

====
